---- MODULE Spec2Model ----
(***************************************************************************)
(* A model of cidr_trie.PatriciaTrie (src/cidr_trie/__init__.py) and of    *)
(* the helpers it calls (cidr_util.py, bits_util.py).                      *)
(*                                                                         *)
(* Python integers are unbounded; an integer is modelled here as the set   *)
(* of the positions of its set bits, position 0 being the least            *)
(* significant bit, so that 32-bit and 128-bit addresses keep their width. *)
(* A prefix text such as "192.168.0.0/16" is modelled as a record          *)
(*   [v6 |-> ":" occurs in the text, addr |-> the address written,         *)
(*    len |-> the number after "/", or NoLen when there is no "/"].        *)
(* The heap of PatriciaNode objects is the sequence `nodes`; the reference *)
(* None is 0 and the root of the trie is the node at index Root.           *)
(***************************************************************************)
EXTENDS Integers, Sequences, FiniteSets, TLC

(* ------------------------------ bounds -------------------------------- *)
\* the IPv4 addresses of the inputs have their set bits among the TopBits
\* positions below the most significant one (0.0.0.0 .. 127.255.255.255)
TopBits == 2
\* the prefix lengths given to insert are 0..MaxLen
MaxLen == 3
\* the number of (prefix length, value) items held by all nodes together
MaxEntries == 3
\* the values stored are 1..MaxData
MaxData == 2
\* the number of items held by the nodes of the trie that is made deep
MaxDeepEntries == 33

(* --------------------------- integers as bit sets --------------------- *)
None == 0
Root == 1
NoLen == -1

Max(S) == CHOOSE x \in S : \A y \in S : y <= x
Min(S) == CHOOSE x \in S : \A y \in S : x <= y

RECURSIVE Pow2(_)
Pow2(k) == IF k = 0 THEN 1 ELSE 2 * Pow2(k - 1)

\* n >> k
ShiftR(n, k) == {q - k : q \in {x \in n : x >= k}}
\* n + 1
Incr(n) ==
    LET k == Min({j \in 0..(Cardinality(n)) : j \notin n})
    IN  {x \in n : x > k} \cup {k}
\* (1 << k) - 1
LowOnes(k) == 0..(k - 1)
\* int.bit_length()
BitLength(n) == IF n = {} THEN 0 ELSE Max(n) + 1

(* ------------------------------ bits_util ----------------------------- *)
\* bit_not(n, numbits) = (1 << numbits) - 1 - n, for n below 2^numbits
bit_not(n, numbits) == LowOnes(numbits) \ n

\* is_set raises ValueError (negative shift count) when the shift
\* 127 - b or 31 - b is negative
is_set_raises(b, isv6) ==
    LET bb == IF b < 0 THEN 0 ELSE b
    IN  IF isv6 THEN 127 - bb < 0 ELSE 31 - bb < 0

is_set(b, val, isv6) ==
    LET bb == IF b < 0 THEN 0 ELSE b
    IN  IF isv6 THEN (127 - bb) \in val ELSE (31 - bb) \in val

RECURSIVE SmearLoop(_, _, _)
SmearLoop(n, i, maxp) ==
    IF i > maxp THEN n
    ELSE SmearLoop(n \cup ShiftR(n, Pow2(i)), i + 1, maxp)

\* while (n & 1) == 0: n >>= 1; pos += 1  -- the loop stops at the first pos
\* whose bit is set in n, having passed only positions whose bit is clear
TrailingZeros(n) ==
    CHOOSE pos \in 0..Max(n) : pos \in n /\ \A j \in 0..(pos - 1) : j \notin n

\* the number of bits of val in place of the index of its last set bit
fls_BitLength(val, isv6) == BitLength(val)

fls(val, isv6) ==
    IF val = {} THEN 0
    ELSE LET max_power_of_2 == IF isv6 THEN 7 ELSE 5
             n0 == val \cup ShiftR(val, 1)
             n1 == SmearLoop(n0, 1, max_power_of_2)
             n2 == ShiftR(Incr(n1), 1)
         IN  TrailingZeros(n2)

\* (x & -x).bit_length() - 1 ; x & -x keeps the lowest set bit of x
ffs(x) ==
    LET low == IF x = {} THEN {} ELSE {Min(x)}
    IN  BitLength(low) - 1

(* ------------------------------ cidr_util ----------------------------- *)
get_subnet_mask_raises(subnet, isv6) ==
    IF isv6 THEN 128 - subnet < 0 ELSE 32 - subnet < 0

get_subnet_mask(subnet, isv6) ==
    IF isv6 THEN bit_not(LowOnes(128 - subnet), 128)
    ELSE bit_not(LowOnes(32 - subnet), 32)

is_v6(prefix) == prefix.v6

\* ipaddress.IPv4Address(ip) / IPv6Address(ip) reject an integer that does
\* not fit the width
ip_itoa_raises(ip, isv6) ==
    ip # {} /\ (IF isv6 THEN Max(ip) >= 128 ELSE Max(ip) >= 32)

ip_itoa(ip, isv6) == [v6 |-> isv6, addr |-> ip]

\* ipaddress.IPv4Network / IPv6Network reject a prefix length above the width
cidr_atoi_raises(prefix) ==
    /\ prefix.len # NoLen
    /\ (IF is_v6(prefix) THEN prefix.len > 128 ELSE prefix.len > 32)

\* with strict=False the network address is the address masked by the
\* prefix length
cidr_atoi(prefix) ==
    IF prefix.len = NoLen
    THEN [ip |-> prefix.addr, mask |-> IF is_v6(prefix) THEN 128 ELSE 32]
    ELSE [ip |-> prefix.addr \cap get_subnet_mask(prefix.len, is_v6(prefix)),
          mask |-> prefix.len]

longest_common_prefix_length(a, b, isv6) ==
    (IF isv6 THEN 128 ELSE 32) - fls((a \ b) \cup (b \ a), isv6) - 1

(* ------------------------------ the state ----------------------------- *)
VARIABLES
    nodes,        \* the PatriciaNode objects: ip, bit, value, parent, left, right
    defaultData,  \* the dict object that is the default of PatriciaNode's `data`
    v6,           \* PatriciaTrie.v6
    size,         \* PatriciaTrie.size
    last,         \* the last call made on the trie and its outcome
    inserted,     \* history: the entries of the inserts that returned a node
    lcpCall       \* a call of longest_common_prefix_length: arguments, result

vars == <<nodes, defaultData, v6, size, last, inserted, lcpCall>>

\* a dict is the sequence of its items in insertion order
DictHas(d, k) == \E i \in 1..Len(d) : d[i].k = k
DictGet(d, k) == d[CHOOSE i \in 1..Len(d) : d[i].k = k].v
\* an assignment that replaces the dict by one that holds the new item only
DictSet_Replace(d, k, v) == <<[k |-> k, v |-> v]>>

DictSet(d, k, v) ==
    IF DictHas(d, k)
    THEN [i \in 1..Len(d) |-> IF d[i].k = k THEN [k |-> k, v |-> v] ELSE d[i]]
    ELSE Append(d, [k |-> k, v |-> v])
DictKeys(d) == {d[i].k : i \in 1..Len(d)}

\* PatriciaNode(ip, bit, data)
PatriciaNode(ip, bit, data) ==
    [ip |-> ip, bit |-> bit, value |-> data,
     parent |-> None, left |-> None, right |-> None]

\* the root is built by PatriciaNode(0, 0): its value is the default dict
\* object itself, every other node is built with a dict of its own
ValueOf(ns, dd, n) == IF n = Root THEN dd ELSE ns[n].value

(* ------------------------------- inputs ------------------------------- *)
Prefix(isv6, addr, len) == [v6 |-> isv6, addr |-> addr, len |-> len]

\* IPv4 prefixes: written with their network address and a prefix length,
\* or with a prefix length that does not parse
V4Addrs == SUBSET {30 - i : i \in 0..(TopBits - 1)}
InsertPrefixes ==
    {p \in {Prefix(FALSE, a, l) : a \in V4Addrs, l \in 0..MaxLen} :
        cidr_atoi(p).ip = p.addr}
    \cup {Prefix(FALSE, {}, 33)}
\* the lookups that are recorded as calls ask for a single IPv4 address
Queries == {Prefix(FALSE, a, NoLen) : a \in V4Addrs}
\* every IPv4 prefix text of the model
Prefixes ==
    {Prefix(FALSE, a, l) : a \in V4Addrs, l \in (0..MaxLen) \cup {NoLen, 32, 33}}

\* prefixes of both families: the address 0 and the address whose only set
\* bit is the most significant one
FamilyInsertPrefixes ==
    {Prefix(FALSE, {}, 0), Prefix(FALSE, {31}, 1), Prefix(FALSE, {}, 33),
     Prefix(TRUE, {}, 0), Prefix(TRUE, {127}, 1), Prefix(TRUE, {}, 129)}
FamilyQueries ==
    {Prefix(FALSE, {}, NoLen), Prefix(FALSE, {31}, NoLen),
     Prefix(TRUE, {}, NoLen), Prefix(TRUE, {127}, NoLen)}
FamilyPrefixes == FamilyInsertPrefixes \cup FamilyQueries

\* fewer IPv4 prefixes: 0.0.0.0/0, the addresses 32.0.0.0, 64.0.0.0 and
\* 96.0.0.0 with the two greatest prefix lengths, and a prefix length that
\* does not parse
SmallAddrs == (SUBSET {29, 30}) \ {{}}
SmallInsertPrefixes ==
    {p \in {Prefix(FALSE, a, l) : a \in SmallAddrs,
                                  l \in (MaxLen - 1)..MaxLen} :
        cidr_atoi(p).ip = p.addr}
    \cup {Prefix(FALSE, {}, 0), Prefix(FALSE, {}, 33)}
SmallPrefixes == SmallInsertPrefixes \cup Queries
Data == 1..MaxData

NoCall == [op |-> "none", prefix |-> [v6 |-> FALSE, addr |-> {}, len |-> NoLen],
           data |-> 0, status |-> "ok", node |-> None, values |-> <<>>,
           exists |-> <<FALSE, FALSE>>]

NoLcpCall == [a |-> {}, b |-> {}, v6 |-> FALSE, out |-> NoLen]

\* PatriciaTrie.__init__
Init ==
    /\ nodes = <<PatriciaNode({}, 0, <<>>)>>
    /\ defaultData = <<>>
    /\ v6 = FALSE
    /\ size = 0
    /\ last = NoCall
    /\ inserted = {}
    /\ lcpCall = NoLcpCall

(* ------------------------------- insert ------------------------------- *)
\* the walk down to a leaf; err when is_set raises on the way
RECURSIVE InsertDescend(_, _, _, _, _)
InsertDescend(ns, cur_node, last_node, ip, isv6) ==
    IF cur_node = None THEN [last |-> last_node, err |-> FALSE]
    ELSE IF is_set_raises(ns[cur_node].bit, isv6)
         THEN [last |-> cur_node, err |-> TRUE]
         ELSE IF is_set(ns[cur_node].bit, ip, isv6)
              THEN InsertDescend(ns, ns[cur_node].right, cur_node, ip, isv6)
              ELSE InsertDescend(ns, ns[cur_node].left, cur_node, ip, isv6)

\* the walk back up while cur_node.bit > lcp
RECURSIVE InsertClimb(_, _, _, _)
InsertClimb(ns, cur_node, last_node, lcp) ==
    IF ns[cur_node].bit > lcp
    THEN InsertClimb(ns, ns[cur_node].parent, cur_node, lcp)
    ELSE [cur |-> cur_node, last |-> last_node]

\* insert with the bit of the new node taken from the lcp, and from the
\* lowest set bit of the address only when the lcp is 0
InsertNewNode_LcpBit(ns, last_node, ip, mask, data, isv6) ==
    LET lcp == longest_common_prefix_length(ip, ns[last_node].ip, isv6)
        up == InsertClimb(ns, last_node, None, lcp)
        ip_addr_width == IF isv6 THEN 128 ELSE 32
        rightmost_set_bit == IF lcp = 0 THEN ip_addr_width - ffs(ip) - 1
                             ELSE lcp
        id == Len(ns) + 1
        to_insert == [PatriciaNode(ip, rightmost_set_bit,
                                   <<[k |-> mask, v |-> data]>>)
                        EXCEPT !.parent = up.cur]
        ns1 == Append(ns, to_insert)
        ns2 == IF is_set(ns[up.cur].bit, ip, isv6)
               THEN [ns1 EXCEPT ![up.cur].right = id]
               ELSE [ns1 EXCEPT ![up.cur].left = id]
    IN  IF up.last = None
        THEN [status |-> "ok", ns |-> ns2, node |-> id]
        ELSE LET ns3 == [ns2 EXCEPT ![up.last].parent = id]
             IN  IF is_set_raises(rightmost_set_bit, isv6)
                 THEN [status |-> "shift_error", ns |-> ns3, node |-> None]
                 ELSE IF is_set(rightmost_set_bit, ns[up.last].ip, isv6)
                      THEN [status |-> "ok", node |-> id,
                            ns |-> [ns3 EXCEPT ![id].right = up.last]]
                      ELSE [status |-> "ok", node |-> id,
                            ns |-> [ns3 EXCEPT ![id].left = up.last]]

\* the part of insert that links a new node in; the state it leaves and
\* whether it returned or raised
InsertNewNode(ns, last_node, ip, mask, data, isv6) ==
    LET lcp == longest_common_prefix_length(ip, ns[last_node].ip, isv6)
        up == InsertClimb(ns, last_node, None, lcp)
        ip_addr_width == IF isv6 THEN 128 ELSE 32
        rightmost_set_bit == ip_addr_width - ffs(ip) - 1
        id == Len(ns) + 1
        to_insert == [PatriciaNode(ip, rightmost_set_bit,
                                   <<[k |-> mask, v |-> data]>>)
                        EXCEPT !.parent = up.cur]
        ns1 == Append(ns, to_insert)
        ns2 == IF is_set(ns[up.cur].bit, ip, isv6)
               THEN [ns1 EXCEPT ![up.cur].right = id]
               ELSE [ns1 EXCEPT ![up.cur].left = id]
    IN  IF up.last = None
        THEN [status |-> "ok", ns |-> ns2, node |-> id]
        ELSE LET ns3 == [ns2 EXCEPT ![up.last].parent = id]
             IN  IF is_set_raises(rightmost_set_bit, isv6)
                 THEN [status |-> "shift_error", ns |-> ns3, node |-> None]
                 ELSE IF is_set(rightmost_set_bit, ns[up.last].ip, isv6)
                      THEN [status |-> "ok", node |-> id,
                            ns |-> [ns3 EXCEPT ![id].right = up.last]]
                      ELSE [status |-> "ok", node |-> id,
                            ns |-> [ns3 EXCEPT ![id].left = up.last]]

\* PatriciaTrie.insert(prefix, data) on the trie with nodes ns, default dict
\* dd, family flag trie_v6 and size sz: the state it leaves and its outcome
insert(ns, dd, trie_v6, sz, prefix, data) ==
    LET isv6 == is_v6(prefix)
        same == [status |-> "family_mismatch", ns |-> ns, dd |-> dd,
                 v |-> trie_v6, sz |-> sz, node |-> None]
    IN  IF (trie_v6 /\ ~isv6) \/ (~trie_v6 /\ isv6 /\ sz > 0) THEN same
        ELSE IF cidr_atoi_raises(prefix)
             THEN [same EXCEPT !.status = "parse_error", !.v = isv6]
             ELSE
        LET ip == cidr_atoi(prefix).ip
            mask == cidr_atoi(prefix).mask
            down == InsertDescend(ns, Root, None, ip, isv6)
        IN  IF down.err
            THEN [same EXCEPT !.status = "shift_error", !.v = isv6]
            ELSE IF ns[down.last].ip = ip
                 THEN IF down.last = Root
                      THEN [same EXCEPT !.status = "ok", !.v = isv6,
                                        !.node = Root,
                                        !.dd = DictSet(dd, mask, data)]
                      ELSE [same EXCEPT !.status = "ok", !.v = isv6,
                                        !.node = down.last,
                                        !.ns = [ns EXCEPT ![down.last].value =
                                                   DictSet(@, mask, data)]]
                 ELSE LET r == InsertNewNode(ns, down.last, ip, mask, data, isv6)
                      IN  [same EXCEPT !.status = r.status, !.v = isv6,
                                       !.node = r.node, !.ns = r.ns,
                                       !.sz = IF r.status = "ok"
                                              THEN sz + 1 ELSE sz]

\* PatriciaTrie.insert(prefix, data) on the trie of the state
InsertResult(prefix, data) == insert(nodes, defaultData, v6, size, prefix, data)

Entry(prefix, data) ==
    [v6 |-> is_v6(prefix), ip |-> cidr_atoi(prefix).ip,
     mask |-> cidr_atoi(prefix).mask, v |-> data]

RECURSIVE SumLen(_, _)
SumLen(ns, i) == IF i > Len(ns) THEN 0 ELSE Len(ns[i].value) + SumLen(ns, i + 1)
Entries(ns, dd) == Len(dd) + SumLen(ns, 1)

\* a call of insert on a trie that holds max items at most after it
InsertWithin(prefix, data, max) ==
    \E r \in {InsertResult(prefix, data)} :
        /\ Entries(r.ns, r.dd) <= max
        /\ nodes' = r.ns
        /\ defaultData' = r.dd
        /\ v6' = r.v
        /\ size' = r.sz
        /\ last' = [NoCall EXCEPT !.op = "insert", !.prefix = prefix,
                                  !.data = data, !.status = r.status,
                                  !.node = r.node]
        /\ inserted' =
             IF r.status = "ok"
             THEN LET e == Entry(prefix, data)
                  IN  {x \in inserted :
                          ~(x.v6 = e.v6 /\ x.ip = e.ip /\ x.mask = e.mask)}
                      \cup {e}
             ELSE inserted
        /\ UNCHANGED lcpCall

Insert(prefix, data) == InsertWithin(prefix, data, MaxEntries)

(* ------------------------------- lookups ------------------------------ *)
\* the family check that find, find_all_values, find_all and
\* traverse_from_node start with
LookupMismatch(trie_v6, prefix) ==
    (is_v6(prefix) /\ ~trie_v6) \/ (~is_v6(prefix) /\ trie_v6)

\* traverse_from_node(node, prefix): the nodes it yields, in order, and
\* whether is_set raised after the last of them
RECURSIVE TraverseLoop(_, _, _, _)
TraverseLoop(ns, cur_node, ip, isv6) ==
    IF cur_node = None THEN [path |-> <<>>, err |-> FALSE]
    ELSE IF is_set_raises(ns[cur_node].bit, isv6)
         THEN [path |-> <<cur_node>>, err |-> TRUE]
         ELSE LET rest == TraverseLoop(ns,
                              IF is_set(ns[cur_node].bit, ip, isv6)
                              THEN ns[cur_node].right ELSE ns[cur_node].left,
                              ip, isv6)
              IN  [path |-> <<cur_node>> \o rest.path, err |-> rest.err]

traverse_from_node(ns, trie_v6, node, prefix) ==
    IF LookupMismatch(trie_v6, prefix)
    THEN [status |-> "family_mismatch", path |-> <<>>]
    ELSE IF cidr_atoi_raises(prefix)
         THEN [status |-> "parse_error", path |-> <<>>]
         ELSE LET t == TraverseLoop(ns, node, cidr_atoi(prefix).ip, is_v6(prefix))
              IN  [status |-> IF t.err THEN "shift_error" ELSE "ok",
                   path |-> t.path]

traverse(ns, trie_v6, prefix) == traverse_from_node(ns, trie_v6, Root, prefix)

\* find with the comparison of addresses left out: returns the node at
\* which the walk ends
find_LastNode(ns, trie_v6, prefix) ==
    IF LookupMismatch(trie_v6, prefix)
    THEN [status |-> "family_mismatch", node |-> None]
    ELSE IF cidr_atoi_raises(prefix)
         THEN [status |-> "parse_error", node |-> None]
         ELSE LET t == traverse(ns, trie_v6, prefix)
              IN  [status |-> t.status, node |-> t.path[Len(t.path)]]

\* PatriciaTrie.find(prefix): returns at the first node yielded whose ip is
\* the one asked for, before the generator goes on
find(ns, trie_v6, prefix) ==
    IF LookupMismatch(trie_v6, prefix)
    THEN [status |-> "family_mismatch", node |-> None]
    ELSE IF cidr_atoi_raises(prefix)
         THEN [status |-> "parse_error", node |-> None]
         ELSE LET ip == cidr_atoi(prefix).ip
                  t == traverse(ns, trie_v6, prefix)
                  hits == {i \in 1..Len(t.path) : ns[t.path[i]].ip = ip}
              IN  IF hits # {} THEN [status |-> "ok", node |-> t.path[Min(hits)]]
                  ELSE [status |-> t.status, node |-> None]

\* get_values without the test that skips the masks greater than the mask of
\* the query
RECURSIVE GetValuesLoop_NoSkip(_, _, _, _, _, _)
GetValuesLoop_NoSkip(value, i, node_ip, ip, mask, isv6) ==
    IF i > Len(value) THEN [raises |-> FALSE, result |-> <<>>]
    ELSE LET m == value[i].k
             rest == GetValuesLoop_NoSkip(value, i + 1, node_ip, ip, mask, isv6)
         IN  IF get_subnet_mask_raises(m, isv6)
             THEN [raises |-> TRUE, result |-> <<>>]
             ELSE IF node_ip = (ip \cap get_subnet_mask(m, isv6))
                  THEN IF ip_itoa_raises(node_ip, FALSE)
                       THEN [raises |-> TRUE, result |-> <<>>]
                       ELSE [raises |-> rest.raises,
                             result |->
                               <<[k |-> [v6 |-> ip_itoa(node_ip, FALSE).v6,
                                         addr |-> ip_itoa(node_ip, FALSE).addr,
                                         len |-> m],
                                  v |-> value[i].v]>> \o rest.result]
                  ELSE rest

\* PatriciaNode.get_values(prefix) on node n, from the item at position i on
RECURSIVE GetValuesLoop(_, _, _, _, _, _)
GetValuesLoop(value, i, node_ip, ip, mask, isv6) ==
    IF i > Len(value) THEN [raises |-> FALSE, result |-> <<>>]
    ELSE LET m == value[i].k
             rest == GetValuesLoop(value, i + 1, node_ip, ip, mask, isv6)
         IN  IF m > mask THEN rest
             ELSE IF get_subnet_mask_raises(m, isv6)
                  THEN [raises |-> TRUE, result |-> <<>>]
                  ELSE IF node_ip = (ip \cap get_subnet_mask(m, isv6))
                       THEN IF ip_itoa_raises(node_ip, FALSE)
                            THEN [raises |-> TRUE, result |-> <<>>]
                            ELSE [raises |-> rest.raises,
                                  result |->
                                    <<[k |-> [v6 |-> ip_itoa(node_ip, FALSE).v6,
                                              addr |-> ip_itoa(node_ip, FALSE).addr,
                                              len |-> m],
                                       v |-> value[i].v]>> \o rest.result]
                       ELSE rest

get_values(ns, dd, n, prefix) ==
    GetValuesLoop(ValueOf(ns, dd, n), 1, ns[n].ip, cidr_atoi(prefix).ip,
                  cidr_atoi(prefix).mask, is_v6(prefix))

\* {**values, **vals}
RECURSIVE DictMerge(_, _)
DictMerge(values, vals) ==
    IF vals = <<>> THEN values
    ELSE DictMerge(DictSet(values, Head(vals).k, Head(vals).v), Tail(vals))

RECURSIVE FindAllLoop(_, _, _, _, _, _)
FindAllLoop(ns, dd, path, i, prefix, values) ==
    IF i > Len(path) THEN [raises |-> FALSE, values |-> values]
    ELSE LET vals == get_values(ns, dd, path[i], prefix)
         IN  IF vals.raises THEN [raises |-> TRUE, values |-> <<>>]
             ELSE FindAllLoop(ns, dd, path, i + 1, prefix,
                              DictMerge(values, vals.result))

\* PatriciaTrie.find_all_values(prefix)
find_all_values(ns, dd, trie_v6, prefix) ==
    IF LookupMismatch(trie_v6, prefix)
    THEN [status |-> "family_mismatch", values |-> <<>>]
    ELSE LET t == traverse(ns, trie_v6, prefix)
         IN  IF t.status = "parse_error"
             THEN [status |-> "parse_error", values |-> <<>>]
             ELSE LET r == FindAllLoop(ns, dd, t.path, 1, prefix, <<>>)
                  IN  IF r.raises
                      THEN [status |-> "address_error", values |-> <<>>]
                      ELSE IF t.status = "shift_error"
                           THEN [status |-> "shift_error", values |-> <<>>]
                           ELSE [status |-> "ok", values |-> r.values]

\* PatriciaTrie.check_value_exists(prefix): its outcome and the v6 it leaves
check_value_exists(ns, dd, trie_v6, sz, prefix) ==
    LET isv6 == is_v6(prefix)
    IN  IF (trie_v6 /\ ~isv6) \/ (~trie_v6 /\ isv6 /\ sz > 0)
        THEN [status |-> "family_mismatch", v |-> trie_v6,
              exists |-> <<FALSE, FALSE>>]
        ELSE IF cidr_atoi_raises(prefix)
             THEN [status |-> "parse_error", v |-> isv6,
                   exists |-> <<FALSE, FALSE>>]
             ELSE LET ip == cidr_atoi(prefix).ip
                      mask == cidr_atoi(prefix).mask
                      t == traverse(ns, isv6, prefix)
                      last_node == t.path[Len(t.path)]
                  IN  IF t.status # "ok"
                      THEN [status |-> t.status, v |-> isv6,
                            exists |-> <<FALSE, FALSE>>]
                      ELSE IF ns[last_node].ip = ip
                           THEN [status |-> "ok", v |-> isv6,
                                 exists |-> <<TRUE,
                                     DictHas(ValueOf(ns, dd, last_node),
                                             mask)>>]
                           ELSE [status |-> "ok", v |-> isv6,
                                 exists |-> <<FALSE, FALSE>>]

(* -------------------------- ordered traversals ------------------------ *)
\* the loops of the three traversals: stack and cur_node (and prev_node) are
\* the locals of the generator, out the nodes yielded so far
RECURSIVE PreorderLoop(_, _, _, _)
PreorderLoop(ns, stack, cur_node, out) ==
    IF cur_node # None
    THEN PreorderLoop(ns, Append(stack, cur_node), ns[cur_node].left,
                      Append(out, cur_node))
    ELSE IF Len(stack) > 0
         THEN PreorderLoop(ns, SubSeq(stack, 1, Len(stack) - 1),
                           ns[stack[Len(stack)]].right, out)
         ELSE out

traverse_preorder_from_node(ns, node) == PreorderLoop(ns, <<>>, node, <<>>)

RECURSIVE InorderLoop(_, _, _, _)
InorderLoop(ns, stack, cur_node, out) ==
    IF cur_node # None
    THEN InorderLoop(ns, Append(stack, cur_node), ns[cur_node].left, out)
    ELSE IF Len(stack) > 0
         THEN InorderLoop(ns, SubSeq(stack, 1, Len(stack) - 1),
                          ns[stack[Len(stack)]].right,
                          Append(out, stack[Len(stack)]))
         ELSE out

\* the inorder traversal that yields a node when it pushes it, not when it
\* pops it
traverse_inorder_YieldAtPush(ns, node) == PreorderLoop(ns, <<>>, node, <<>>)

traverse_inorder_from_node(ns, node) == InorderLoop(ns, <<>>, node, <<>>)

RECURSIVE PostorderLoop(_, _, _, _, _)
PostorderLoop(ns, stack, cur_node, prev_node, out) ==
    IF cur_node # None
    THEN PostorderLoop(ns, Append(stack, cur_node), ns[cur_node].left,
                       prev_node, out)
    ELSE IF Len(stack) > 0
         THEN LET top == stack[Len(stack)]
              IN  IF ns[top].right = None \/ ns[top].right = prev_node
                  THEN PostorderLoop(ns, SubSeq(stack, 1, Len(stack) - 1),
                                     None, top, Append(out, top))
                  ELSE PostorderLoop(ns, stack, ns[top].right, prev_node, out)
         ELSE out

traverse_postorder_from_node(ns, node) ==
    PostorderLoop(ns, <<>>, node, None, <<>>)

\* traverse_preorder(), traverse_inorder(), traverse_postorder()
traverse_preorder(ns) == traverse_preorder_from_node(ns, Root)
\* the inorder traversal of the trie that leaves the root out
traverse_inorder_SkipRoot(ns) ==
    SelectSeq(traverse_inorder_from_node(ns, Root), LAMBDA n : n # Root)

traverse_inorder(ns) == traverse_inorder_from_node(ns, Root)
traverse_postorder(ns) == traverse_postorder_from_node(ns, Root)

Find(prefix) ==
    \E r \in {find(nodes, v6, prefix)} :
        /\ last' = [NoCall EXCEPT !.op = "find", !.prefix = prefix,
                                  !.status = r.status, !.node = r.node]
        /\ UNCHANGED <<nodes, defaultData, v6, size, inserted, lcpCall>>

FindAllValues(prefix) ==
    \E r \in {find_all_values(nodes, defaultData, v6, prefix)} :
        /\ last' = [NoCall EXCEPT !.op = "find_all_values", !.prefix = prefix,
                                  !.status = r.status, !.values = r.values]
        /\ UNCHANGED <<nodes, defaultData, v6, size, inserted, lcpCall>>

Traverse(prefix) ==
    \E r \in {traverse(nodes, v6, prefix)} :
        /\ last' = [NoCall EXCEPT !.op = "traverse", !.prefix = prefix,
                                  !.status = r.status, !.values = r.path]
        /\ UNCHANGED <<nodes, defaultData, v6, size, inserted, lcpCall>>

CheckValueExists(prefix) ==
    \E r \in {check_value_exists(nodes, defaultData, v6, size, prefix)} :
        /\ v6' = r.v
        /\ last' = [NoCall EXCEPT !.op = "check_value_exists", !.prefix = prefix,
                                  !.status = r.status, !.exists = r.exists]
        /\ UNCHANGED <<nodes, defaultData, size, inserted, lcpCall>>

\* the traversals from the root and from a given node
TraversePreorder(node) ==
    /\ last' = [NoCall EXCEPT !.op = "traverse_preorder", !.node = node,
                              !.values = IF node = Root
                                         THEN traverse_preorder(nodes)
                                         ELSE traverse_preorder_from_node(nodes, node)]
    /\ UNCHANGED <<nodes, defaultData, v6, size, inserted, lcpCall>>

TraverseInorder(node) ==
    /\ last' = [NoCall EXCEPT !.op = "traverse_inorder", !.node = node,
                              !.values = IF node = Root
                                         THEN traverse_inorder(nodes)
                                         ELSE traverse_inorder_from_node(nodes, node)]
    /\ UNCHANGED <<nodes, defaultData, v6, size, inserted, lcpCall>>

TraversePostorder(node) ==
    /\ last' = [NoCall EXCEPT !.op = "traverse_postorder", !.node = node,
                              !.values = IF node = Root
                                         THEN traverse_postorder(nodes)
                                         ELSE traverse_postorder_from_node(nodes, node)]
    /\ UNCHANGED <<nodes, defaultData, v6, size, inserted, lcpCall>>

\* one trie that is given IPv4 prefixes only
Next ==
    \/ \E prefix \in InsertPrefixes, data \in Data : Insert(prefix, data)
    \/ \E prefix \in Queries : Find(prefix)
    \/ \E prefix \in Queries : FindAllValues(prefix)

Spec == Init /\ [][Next]_vars

\* one trie that is given fewer IPv4 prefixes, asked for addresses and
\* prefixes, and traversed from any of its nodes; the values stored play no
\* part in the walks and the traversals, and are all the same
SmallNext ==
    \/ \E prefix \in SmallInsertPrefixes : Insert(prefix, 1)
    \/ \E prefix \in Queries : Find(prefix)
    \/ \E prefix \in SmallInsertPrefixes : CheckValueExists(prefix)
    \/ \E node \in DOMAIN nodes : TraversePreorder(node)
    \/ \E node \in DOMAIN nodes : TraverseInorder(node)
    \/ \E node \in DOMAIN nodes : TraversePostorder(node)

SmallSpec == Init /\ [][SmallNext]_vars

\* one trie that is given 32.0.0.0/3 and 96.0.0.0/3 again and again
DeepInsertPrefixes == {Prefix(FALSE, {29}, 3), Prefix(FALSE, {29, 30}, 3)}

DeepInsert(prefix) == InsertWithin(prefix, 1, MaxDeepEntries)

DeepNext ==
    \/ \E prefix \in DeepInsertPrefixes : DeepInsert(prefix)
    \/ \E prefix \in Queries : Find(prefix)

DeepSpec == Init /\ [][DeepNext]_vars

\* the addresses given to longest_common_prefix_length: their set bits are
\* among the TopBits most significant positions, a position in the middle
\* and the least significant one
LcpAddrs(isv6) ==
    SUBSET ({(IF isv6 THEN 128 ELSE 32) - 1 - i : i \in 0..(TopBits - 1)}
            \cup {IF isv6 THEN 77 ELSE 13, 0})

\* a call of longest_common_prefix_length(a, b, v6) that has not returned
LcpInit ==
    /\ nodes = <<PatriciaNode({}, 0, <<>>)>>
    /\ defaultData = <<>>
    /\ v6 = FALSE
    /\ size = 0
    /\ last = NoCall
    /\ inserted = {}
    /\ \E isv6 \in BOOLEAN :
          \E a \in LcpAddrs(isv6), b \in LcpAddrs(isv6) :
              lcpCall = [a |-> a, b |-> b, v6 |-> isv6, out |-> NoLen]

LongestCommonPrefixLength ==
    /\ lcpCall.out = NoLen
    /\ lcpCall' = [lcpCall EXCEPT !.out =
                      longest_common_prefix_length(lcpCall.a, lcpCall.b,
                                                   lcpCall.v6)]
    /\ UNCHANGED <<nodes, defaultData, v6, size, last, inserted>>

LcpNext == LongestCommonPrefixLength

LcpSpec == LcpInit /\ [][LcpNext]_vars

\* one trie that is given prefixes of both families
FamilyNext ==
    \/ \E prefix \in FamilyInsertPrefixes, data \in Data : Insert(prefix, data)
    \/ \E prefix \in FamilyQueries : Find(prefix)
    \/ \E prefix \in FamilyQueries : FindAllValues(prefix)
    \/ \E prefix \in FamilyQueries : Traverse(prefix)
    \/ \E prefix \in FamilyQueries : CheckValueExists(prefix)

FamilySpec == Init /\ [][FamilyNext]_vars

\* inserts that meet nodes that exist: 0.0.0.0/0 on the root, 64.0.0.0 with
\* two prefix lengths, 96.0.0.0 under it, each with every value
OverwriteInsertPrefixes ==
    {Prefix(FALSE, {}, 0), Prefix(FALSE, {30}, 2), Prefix(FALSE, {30}, 3),
     Prefix(FALSE, {29, 30}, 3)}

OverwriteNext ==
    \/ \E prefix \in OverwriteInsertPrefixes, data \in Data : Insert(prefix, data)
    \/ \E prefix \in Queries : Find(prefix)

OverwriteSpec == Init /\ [][OverwriteNext]_vars

\* queries for the addresses 64.0.0.0 and 96.0.0.0 with prefix lengths below,
\* at and above the stored ones, and with none
EmissionQueries ==
    {Prefix(FALSE, {30}, 1), Prefix(FALSE, {30}, 2), Prefix(FALSE, {30}, 3),
     Prefix(FALSE, {29, 30}, 2), Prefix(FALSE, {29, 30}, 3),
     Prefix(FALSE, {30}, NoLen), Prefix(FALSE, {29, 30}, NoLen),
     Prefix(FALSE, {}, 0), Prefix(FALSE, {}, NoLen)}

EmissionNext ==
    \/ \E prefix \in OverwriteInsertPrefixes : Insert(prefix, 1)
    \/ \E prefix \in EmissionQueries : FindAllValues(prefix)

EmissionSpec == Init /\ [][EmissionNext]_vars

(* ------------------------------- claims ------------------------------- *)
\* the nodes linked under n, n included
RECURSIVE Subtree(_, _)
Subtree(ns, n) ==
    IF n = None THEN {}
    ELSE {n} \cup Subtree(ns, ns[n].left) \cup Subtree(ns, ns[n].right)

\* the entry e is stored for a network that contains the address of query q
Contains(e, q) ==
    /\ e.v6 = is_v6(q)
    /\ e.ip = (cidr_atoi(q).ip \cap get_subnet_mask(e.mask, e.v6))

\* the key under which find_all_values reports the entry e
KeyOf(e) == Prefix(FALSE, e.ip, e.mask)

InsertReturned == last.op = "insert" /\ last.status = "ok"

\* C1 -- round trip: after an insert of (address/prefix_len, value) that
\* returned, find with the same prefix returns a node that has the inserted
\* address and maps prefix_len to value.
C1_RoundTrip ==
    InsertReturned =>
        \E r \in {find(nodes, v6, last.prefix)} :
            /\ r.status = "ok"
            /\ r.node # None
            /\ nodes[r.node].ip = cidr_atoi(last.prefix).ip
            /\ DictHas(ValueOf(nodes, defaultData, r.node),
                       cidr_atoi(last.prefix).mask)
            /\ DictGet(ValueOf(nodes, defaultData, r.node),
                       cidr_atoi(last.prefix).mask) = last.data

\* C2 -- completeness of find_all_values: for every query address, every
\* entry inserted whose network contains the address is in the result.
C2_FindAllComplete ==
    \A q \in Queries :
        \E r \in {find_all_values(nodes, defaultData, v6, q)} :
            \A e \in inserted :
                Contains(e, q) =>
                    /\ r.status = "ok"
                    /\ KeyOf(e) \in DictKeys(r.values)

\* C3 -- soundness of find_all_values: every entry of the result was
\* inserted, carries the value inserted last for it, and its network
\* contains the query address.
C3_FindAllSound ==
    \A q \in Queries :
        \E r \in {find_all_values(nodes, defaultData, v6, q)} :
            r.status = "ok" =>
                \A i \in 1..Len(r.values) :
                    \E e \in inserted :
                        /\ KeyOf(e) = r.values[i].k
                        /\ e.v = r.values[i].v
                        /\ Contains(e, q)

\* C4 -- specificity ordering: the prefix lengths of the entries that
\* find_all_values returns never decrease along the result, so that the
\* longest matching prefix is the last entry.
C4_SpecificityOrder ==
    \A q \in Queries :
        \E r \in {find_all_values(nodes, defaultData, v6, q)} :
            r.status = "ok" =>
                \A i, j \in 1..Len(r.values) :
                    i < j => r.values[i].k.len <= r.values[j].k.len

\* C5 -- idempotent overwrite: an insert of an (address, prefix_len) inserted
\* before with another value leaves one node for the address, makes find
\* return a node that maps prefix_len to the new value, and leaves size as
\* it was.
C5_Overwrite ==
    [][
        (/\ last'.op = "insert"
         /\ last'.status = "ok"
         /\ \E x \in inserted :
               /\ x.v6 = is_v6(last'.prefix)
               /\ x.ip = cidr_atoi(last'.prefix).ip
               /\ x.mask = cidr_atoi(last'.prefix).mask
               /\ x.v # last'.data)
        =>
        (/\ size' = size
         /\ Cardinality({n \in Subtree(nodes', Root) :
                            nodes'[n].ip = cidr_atoi(last'.prefix).ip}) = 1
         /\ \E r \in {find(nodes', v6', last'.prefix)} :
               /\ r.status = "ok"
               /\ r.node # None
               /\ DictHas(ValueOf(nodes', defaultData', r.node),
                          cidr_atoi(last'.prefix).mask)
               /\ DictGet(ValueOf(nodes', defaultData', r.node),
                          cidr_atoi(last'.prefix).mask) = last'.data)
    ]_vars

\* C6 -- one node per address: no two nodes of the trie, the root included,
\* carry the same address, and the node of an address holds every prefix
\* length inserted for that address.
C6_OneNodePerAddress ==
    /\ \A m, n \in Subtree(nodes, Root) : nodes[m].ip = nodes[n].ip => m = n
    /\ \A e \in inserted :
          \A n \in Subtree(nodes, Root) :
              nodes[n].ip = e.ip => DictHas(ValueOf(nodes, defaultData, n), e.mask)

\* C7 -- family lock: once an insert of one family has returned, every insert
\* of a prefix of the other family fails with the family mismatch, and the
\* recorded family does not change any more.
C7_FamilyLock ==
    [][
        inserted # {} =>
            /\ v6' = v6
            /\ (/\ last'.op = "insert"
                /\ \E e \in inserted : e.v6 # is_v6(last'.prefix))
               => last'.status = "family_mismatch"
    ]_vars

\* C8 -- an empty trie accepts either family: as long as no insert has
\* returned, an insert of any prefix that parses, IPv4 or IPv6, returns.
C8_EmptyAcceptsEither ==
    inserted = {} =>
        \A p \in FamilyInsertPrefixes :
            ~cidr_atoi_raises(p) => InsertResult(p, 1).status = "ok"

\* the family that the inserts that returned have locked differs from the
\* family of the query q
LockedOtherFamily(q) == \E e \in inserted : e.v6 # is_v6(q)

\* C9 -- family guard on lookups: find, find_all_values and traverse fail
\* with the family mismatch exactly when an insert that returned has locked
\* a family other than the query's.
C9_LookupGuard ==
    \A q \in FamilyQueries :
        /\ find(nodes, v6, q).status = "family_mismatch" <=> LockedOtherFamily(q)
        /\ find_all_values(nodes, defaultData, v6, q).status = "family_mismatch"
              <=> LockedOtherFamily(q)
        /\ traverse(nodes, v6, q).status = "family_mismatch"
              <=> LockedOtherFamily(q)

\* C10 -- a failed insert changes nothing: when insert fails with the family
\* mismatch or with a parse error, nodes, links, masks, size and the recorded
\* family are what they were before the call.
C10_FailedInsertNoChange ==
    [][
        (last'.op = "insert" /\ last'.status \in {"family_mismatch", "parse_error"})
        => /\ nodes' = nodes
           /\ defaultData' = defaultData
           /\ size' = size
           /\ v6' = v6
    ]_vars

\* C11 -- search reachability: every node linked under the root is one of the
\* nodes that the top-down search walk for its own address visits, and every
\* entry inserted is still found by find, on a node that holds its prefix
\* length, after the inserts that followed.
C11_SearchReachability ==
    /\ \A n \in Subtree(nodes, Root) :
          \E t \in {TraverseLoop(nodes, Root, nodes[n].ip, v6)} :
              \E i \in 1..Len(t.path) : t.path[i] = n
    /\ \A e \in inserted :
          \E r \in {find(nodes, v6, KeyOf(e))} :
              /\ r.node # None
              /\ DictHas(ValueOf(nodes, defaultData, r.node), e.mask)

\* C12 -- branch-bit monotonicity: every node linked below another node has a
\* bit strictly greater than the bit of the node it hangs from, and the bit
\* of the root is strictly lower than the bit of every other node.
C12_BitMonotone ==
    /\ \A p \in Subtree(nodes, Root) :
          \A n \in {nodes[p].left, nodes[p].right} \ {None} :
              nodes[n].bit > nodes[p].bit
    /\ \A n \in Subtree(nodes, Root) \ {Root} :
          nodes[Root].bit < nodes[n].bit

\* no entry with the address of query q has been inserted
NeverInserted(q) ==
    \A e \in inserted : ~(e.v6 = is_v6(q) /\ e.ip = cidr_atoi(q).ip)

\* C13 as stated -- find is exact: find returns None for every address never
\* inserted, the all-zero address included, and a node it returns has the
\* address asked for.
C13_FindExactAsStated ==
    \A q \in SmallPrefixes :
        (~LookupMismatch(v6, q) /\ ~cidr_atoi_raises(q)) =>
            \E r \in {find(nodes, v6, q)} :
                /\ NeverInserted(q) => r.node = None
                /\ r.node # None => nodes[r.node].ip = cidr_atoi(q).ip

\* C13 -- find is exact: find returns no node for an address other than 0
\* that was never inserted, returns the root for the address 0 whether or
\* not a prefix of address 0 was inserted, and a node it returns has the
\* address asked for.
C13_FindExact ==
    \A q \in SmallPrefixes :
        (~LookupMismatch(v6, q) /\ ~cidr_atoi_raises(q)) =>
            \E r \in {find(nodes, v6, q)} :
                /\ (NeverInserted(q) /\ cidr_atoi(q).ip # {}) => r.node = None
                /\ cidr_atoi(q).ip = {} => r.node = Root
                /\ r.node # None => nodes[r.node].ip = cidr_atoi(q).ip

\* find has returned None for an address other than 0 on a trie that holds
\* entries
C13_Witness ==
    /\ last.op = "find"
    /\ last.status = "ok"
    /\ last.node = None
    /\ cidr_atoi(last.prefix).ip # {}
    /\ NeverInserted(last.prefix)
    /\ size >= 2

\* C14 -- check_value_exists(prefix) returns (ip_exists, mask_exists):
\* ip_exists is true exactly when a prefix with the address asked for was
\* inserted before, mask_exists exactly when that (address, prefix length)
\* was inserted, whether or not the node of the address has descendants.
C14_CheckValueExists ==
    \A q \in SmallInsertPrefixes :
        ~cidr_atoi_raises(q) =>
            \E r \in {check_value_exists(nodes, defaultData, v6, size, q)} :
                /\ r.status = "ok"
                /\ r.exists[1] <=> ~NeverInserted(q)
                /\ r.exists[2] <=>
                      \E e \in inserted :
                          /\ e.v6 = is_v6(q)
                          /\ e.ip = cidr_atoi(q).ip
                          /\ e.mask = cidr_atoi(q).mask

\* the calls that only look things up
LookupOps ==
    {"find", "find_all_values", "traverse", "check_value_exists",
     "traverse_preorder", "traverse_inorder", "traverse_postorder"}

\* C15 -- lookups are read-only: a call of find, find_all_values,
\* check_value_exists, traverse or an ordered traversal leaves the nodes, their links and masks,
\* the size and the recorded family of the trie as they were.
C15_LookupsReadOnly ==
    [][
        last'.op \in LookupOps =>
            /\ nodes' = nodes
            /\ defaultData' = defaultData
            /\ size' = size
            /\ v6' = v6
    ]_vars

\* C16 -- operations complete normally: insert, find and find_all_values
\* given a prefix that parses, of the family of the trie, return without
\* raising, and the bit of every node of the trie is in 0 .. width - 1.
C16_CompleteNormally ==
    /\ \A p \in InsertPrefixes :
          ~cidr_atoi_raises(p) => InsertResult(p, 1).status = "ok"
    /\ \A q \in Queries :
          /\ find(nodes, v6, q).status = "ok"
          /\ find_all_values(nodes, defaultData, v6, q).status = "ok"
    /\ \A n \in Subtree(nodes, Root) :
          nodes[n].bit \in 0..((IF v6 THEN 128 ELSE 32) - 1)

\* C17 -- size invariant: after every call size is the number of nodes other
\* than the root that are linked under the root; an insert that returns
\* after linking a new node adds one to size, and an insert that only
\* updates the masks of a node, or that fails, leaves size as it was.
C17_SizeInvariant ==
    [][
        /\ size' = Cardinality(Subtree(nodes', Root)) - 1
        /\ last'.op = "insert" =>
              IF last'.status = "ok" /\ Len(nodes') > Len(nodes)
              THEN size' = size + 1
              ELSE size' = size
    ]_vars

\* the standard orders of the subtree of n
RECURSIVE PreOrder(_, _)
PreOrder(ns, n) ==
    IF n = None THEN <<>>
    ELSE <<n>> \o PreOrder(ns, ns[n].left) \o PreOrder(ns, ns[n].right)

RECURSIVE InOrder(_, _)
InOrder(ns, n) ==
    IF n = None THEN <<>>
    ELSE InOrder(ns, ns[n].left) \o <<n>> \o InOrder(ns, ns[n].right)

RECURSIVE PostOrder(_, _)
PostOrder(ns, n) ==
    IF n = None THEN <<>>
    ELSE PostOrder(ns, ns[n].left) \o PostOrder(ns, ns[n].right) \o <<n>>

\* the sequence seq holds every node of the set S once and nothing else
ExactlyOnce(seq, S) ==
    /\ Len(seq) = Cardinality(S)
    /\ {seq[i] : i \in 1..Len(seq)} = S

\* C18 -- ordered traversals: from every node, the preorder, inorder and
\* postorder traversals end and yield every node of the subtree of the start
\* node exactly once, in the standard order of their kind: node, left, right
\* for preorder; left, node, right for inorder; left, right, node for
\* postorder.
C18_OrderedTraversals ==
    \A n \in DOMAIN nodes :
        /\ traverse_preorder_from_node(nodes, n) = PreOrder(nodes, n)
        /\ traverse_inorder_from_node(nodes, n) = InOrder(nodes, n)
        /\ traverse_postorder_from_node(nodes, n) = PostOrder(nodes, n)
        /\ ExactlyOnce(traverse_preorder_from_node(nodes, n), Subtree(nodes, n))
        /\ ExactlyOnce(traverse_inorder_from_node(nodes, n), Subtree(nodes, n))
        /\ ExactlyOnce(traverse_postorder_from_node(nodes, n), Subtree(nodes, n))

\* an inorder traversal has been made from a node that has a left and a
\* right subtree
C18_Witness ==
    /\ last.op = "traverse_inorder"
    /\ nodes[last.node].left # None
    /\ nodes[last.node].right # None
    /\ Len(last.values) >= 3

\* C19 as stated -- root special case: while the root holds no masks, the
\* traversals of the trie from the root do not yield the root.
C19_RootNotYieldedAsStated ==
    defaultData = <<>> =>
        /\ \A i \in 1..Len(traverse_preorder(nodes)) :
              traverse_preorder(nodes)[i] # Root
        /\ \A i \in 1..Len(traverse_inorder(nodes)) :
              traverse_inorder(nodes)[i] # Root
        /\ \A i \in 1..Len(traverse_postorder(nodes)) :
              traverse_postorder(nodes)[i] # Root

\* C19 -- no root special case: whether or not the root holds masks, the
\* traversals of the trie from the root yield the root: first in preorder,
\* last in postorder, and in inorder right after the nodes of the left
\* subtree of the root.
C19_RootYielded ==
    /\ traverse_preorder(nodes)[1] = Root
    /\ traverse_postorder(nodes)[Len(traverse_postorder(nodes))] = Root
    /\ Len(traverse_inorder(nodes)) >
          Cardinality(Subtree(nodes, nodes[Root].left))
    /\ traverse_inorder(nodes)
          [Cardinality(Subtree(nodes, nodes[Root].left)) + 1] = Root

\* an inorder traversal from the root of a trie that holds nodes, none of
\* them with address 0, has yielded the root, which holds no masks
C19_Witness ==
    /\ last.op = "traverse_inorder"
    /\ last.node = Root
    /\ defaultData = <<>>
    /\ size >= 2
    /\ \A n \in Subtree(nodes, Root) \ {Root} : nodes[n].ip # {}
    /\ \E i \in 1..Len(last.values) : last.values[i] = Root

\* C20 -- the longest common prefix of an address with itself:
\* longest_common_prefix_length(X, X, family) is the full width of the family,
\* 32 for IPv4 and 128 for IPv6.
C20_LcpSelf ==
    (lcpCall.out # NoLen /\ lcpCall.a = lcpCall.b) =>
        lcpCall.out = (IF lcpCall.v6 THEN 128 ELSE 32)

\* the number of nodes on the longest path from n down to a leaf
RECURSIVE Depth(_, _)
Depth(ns, n) ==
    IF n = None THEN 0
    ELSE 1 + Max({Depth(ns, ns[n].left), Depth(ns, ns[n].right)})

\* C21 -- depth bound: the number of nodes other than the root on every path
\* from the root to a leaf, and the number of nodes other than the root that
\* a search walk visits, is at most the address width, however many nodes
\* the trie holds.
C21_DepthBound ==
    /\ Depth(nodes, Root) - 1 <= (IF v6 THEN 128 ELSE 32)
    /\ \A q \in Queries :
          Len(TraverseLoop(nodes, Root, cidr_atoi(q).ip, v6).path) - 1
              <= (IF v6 THEN 128 ELSE 32)

\* the step is an insert that has created a node
InsertCreates == last'.op = "insert" /\ Len(nodes') > Len(nodes)

\* C22 as stated -- branch bit of a new node: the node that insert creates
\* for an address other than the address of the candidate node, at which
\* the walk down ended, has the bit lcp(address, candidate address), and
\* width - ffs(address) - 1 when that lcp is 0.
C22_NewNodeBitAsStated ==
    [][
        InsertCreates =>
            LET isv6 == is_v6(last'.prefix)
                ip == cidr_atoi(last'.prefix).ip
                candidate == InsertDescend(nodes, Root, None, ip, isv6).last
                lcp == longest_common_prefix_length(ip, nodes[candidate].ip, isv6)
            IN  nodes'[Len(nodes')].bit =
                    IF lcp = 0 THEN (IF isv6 THEN 128 ELSE 32) - ffs(ip) - 1
                    ELSE lcp
    ]_vars

\* C22 -- branch bit of a new node: the node that insert creates has the
\* address inserted and the bit width - ffs(address) - 1, the position from
\* the most significant bit of the lowest set bit of the address, whatever
\* the lcp with the candidate node is; for the address 0 that bit is the
\* width itself.
C22_NewNodeBit ==
    [][
        InsertCreates =>
            LET isv6 == is_v6(last'.prefix)
                ip == cidr_atoi(last'.prefix).ip
            IN  /\ Len(nodes') = Len(nodes) + 1
                /\ nodes'[Len(nodes')].ip = ip
                /\ nodes'[Len(nodes')].bit =
                      (IF isv6 THEN 128 ELSE 32) - ffs(ip) - 1
    ]_vars

\* insert has created a node whose bit is not the lcp of its address and the
\* address of the node it hangs from
C22_Witness ==
    /\ last.op = "insert"
    /\ last.status = "ok"
    /\ last.node = Len(nodes)
    /\ size >= 2
    /\ nodes[last.node].parent # Root
    /\ nodes[last.node].bit #
          longest_common_prefix_length(nodes[last.node].ip,
                                       nodes[nodes[last.node].parent].ip, v6)

\* the items that get_values returns, as a set
Emitted(ns, dd, n, q) ==
    LET r == get_values(ns, dd, n, q).result
    IN  {r[i] : i \in 1..Len(r)}

\* the items [k, v] of node n whose network contains the address of the
\* IPv4 query q, with prefix lengths up to maxlen
Matching(ns, dd, n, q, maxlen) ==
    LET value == ValueOf(ns, dd, n)
    IN  {[k |-> Prefix(FALSE, ns[n].ip, value[i].k), v |-> value[i].v] :
            i \in {j \in 1..Len(value) :
                      /\ value[j].k <= maxlen
                      /\ ns[n].ip = (cidr_atoi(q).ip
                                       \cap get_subnet_mask(value[j].k, FALSE))}}

\* the nodes that the search walk for q visits
OnPath(ns, q) ==
    LET path == TraverseLoop(ns, Root, cidr_atoi(q).ip, is_v6(q)).path
    IN  {path[i] : i \in 1..Len(path)}

\* C23 as stated -- per-node emission in find_all: for every query, at every
\* node of the search walk, the items emitted are exactly the items (p,
\* value) of the node with node address = query address & subnet_mask(p),
\* whatever the prefix length of the query.
C23_EmissionAsStated ==
    \A q \in EmissionQueries :
        ~cidr_atoi_raises(q) =>
            \A n \in OnPath(nodes, q) :
                Emitted(nodes, defaultData, n, q)
                    = Matching(nodes, defaultData, n, q, 32)

\* C23 -- per-node emission in find_all on an IPv4 trie: for every query, at
\* every node of the search walk, the items emitted are exactly the items
\* (p, value) of the node with p <= the prefix length of the query (32 when
\* the query has none) and node address = query address & subnet_mask(p);
\* the items with a greater prefix length are left out; and the result of
\* find_all_values, when it returns, holds the keys emitted at the nodes of
\* the walk and no other.
C23_Emission ==
    \A q \in EmissionQueries :
        ~cidr_atoi_raises(q) =>
            /\ \A n \in OnPath(nodes, q) :
                  /\ ~get_values(nodes, defaultData, n, q).raises
                  /\ Emitted(nodes, defaultData, n, q)
                        = Matching(nodes, defaultData, n, q, cidr_atoi(q).mask)
            /\ \E r \in {find_all_values(nodes, defaultData, v6, q)} :
                  r.status = "ok" =>
                      DictKeys(r.values) =
                          {e.k : e \in UNION {Emitted(nodes, defaultData, n, q) :
                                                n \in OnPath(nodes, q)}}

\* find_all_values has returned for a query with a prefix length, and left
\* out an item of a visited node whose network contains the query address
C23_Witness ==
    /\ last.op = "find_all_values"
    /\ last.status = "ok"
    /\ last.prefix.len # NoLen
    /\ \E n \in OnPath(nodes, last.prefix) :
          Matching(nodes, defaultData, n, last.prefix, 32)
              # Matching(nodes, defaultData, n, last.prefix,
                         cidr_atoi(last.prefix).mask)
    /\ Len(last.values) >= 1

\* the step is a call of insert that returns and whose walk down ends on a
\* node with the address of the prefix
InsertHits(n) ==
    /\ last'.op = "insert"
    /\ last'.status = "ok"
    /\ n = InsertDescend(nodes, Root, None, cidr_atoi(last'.prefix).ip,
                         is_v6(last'.prefix)).last
    /\ nodes[n].ip = cidr_atoi(last'.prefix).ip

\* C24 -- overwrite is not destructive: an insert that hits an existing node
\* (exact address match) sets the item of its prefix length in the masks of
\* that node to the new value and changes nothing else: every other item of
\* the node's masks, the node's address, bit and links, every other node and
\* size stay as they were.
C24_OverwriteFrame ==
    [][ \A n \in DOMAIN nodes :
          InsertHits(n) =>
            LET mask == cidr_atoi(last'.prefix).mask
                old == ValueOf(nodes, defaultData, n)
                new == ValueOf(nodes', defaultData', n)
            IN  /\ size' = size
                /\ Len(nodes') = Len(nodes)
                /\ \A m \in DOMAIN nodes :
                      /\ nodes'[m].ip = nodes[m].ip
                      /\ nodes'[m].bit = nodes[m].bit
                      /\ nodes'[m].left = nodes[m].left
                      /\ nodes'[m].right = nodes[m].right
                      /\ nodes'[m].parent = nodes[m].parent
                      /\ m # n => ValueOf(nodes', defaultData', m)
                                    = ValueOf(nodes, defaultData, m)
                /\ DictKeys(new) = DictKeys(old) \cup {mask}
                /\ DictGet(new, mask) = last'.data
                /\ \A k \in DictKeys(old) \ {mask} :
                      DictGet(new, k) = DictGet(old, k)
      ]_vars

\* insert has just replaced the value of one prefix length on a node that
\* holds another prefix length too, in a trie with another node
C24_Witness ==
    /\ last.op = "insert"
    /\ last.status = "ok"
    /\ \E n \in DOMAIN nodes :
          /\ n # Root
          /\ nodes[n].ip = cidr_atoi(last.prefix).ip
          /\ Len(nodes[n].value) = 2
          /\ DictGet(nodes[n].value, cidr_atoi(last.prefix).mask) = 2
          /\ \E i \in 1..2 : nodes[n].value[i].v = 1
          /\ nodes[n].value[1].k = cidr_atoi(last.prefix).mask
    /\ size = 2

\* the nodes reached from the set S over at most k links left or right
RECURSIVE Reach(_, _, _)
Reach(ns, S, k) ==
    IF k = 0 THEN S
    ELSE Reach(ns, S \cup (({ns[n].left : n \in S} \cup {ns[n].right : n \in S})
                            \ {None}), k - 1)

\* the links that lead to node n, as pairs of the linking node and the side
LinksTo(ns, n) ==
    {<<p, "left">> : p \in {x \in DOMAIN ns : ns[x].left = n}}
        \cup {<<p, "right">> : p \in {x \in DOMAIN ns : ns[x].right = n}}

\* C25 -- the shape of the tree is preserved: the links left and right from
\* the root form a tree without cycles that holds every node ever created,
\* every node but the root is the child of exactly one node, and its parent
\* names that node.
C25_TreeShape ==
    /\ Reach(nodes, {Root}, Len(nodes)) = DOMAIN nodes
    /\ LinksTo(nodes, Root) = {}
    /\ \A n \in DOMAIN nodes \ {Root} :
          /\ Cardinality(LinksTo(nodes, n)) = 1
          /\ \A l \in LinksTo(nodes, n) : nodes[n].parent = l[1]

\* a trie as PatriciaTrie() leaves it in a process that has built no other
NewTrie ==
    [status |-> "ok", ns |-> <<PatriciaNode({}, 0, <<>>)>>, dd |-> <<>>,
     v |-> FALSE, sz |-> 0, node |-> None]

\* the trie t after the inserts of the entries order[i], order[i + 1], ...;
\* it stops at the first insert that raises
RECURSIVE Build(_, _, _)
Build(t, order, i) ==
    IF i > Len(order) \/ t.status # "ok" THEN t
    ELSE Build(insert(t.ns, t.dd, t.v, t.sz,
                      Prefix(order[i].v6, order[i].ip, order[i].mask),
                      order[i].v),
               order, i + 1)

\* the orders in which the entries of S can be inserted, each once
Orders(S) ==
    {o \in [1..Cardinality(S) -> S] :
        \A i, j \in 1..Cardinality(S) : o[i] = o[j] => i = j}

\* what the lookups for query q answer on trie t: the outcome and the items
\* of find_all_values, the outcome of find and whether it found a node
Lookups(t, q) ==
    LET all == find_all_values(t.ns, t.dd, t.v, q)
        one == find(t.ns, t.v, q)
    IN  [all_status |-> all.status,
         all_values |-> {all.values[i] : i \in 1..Len(all.values)},
         find_status |-> one.status,
         found |-> one.node # None]

\* C26 -- the order of the inserts does not matter for lookups: two tries
\* built from the entries inserted so far (distinct address and prefix
\* length) in two orders, every insert returning, answer every query alike:
\* find_all_values with the same entries, find with the same found or not
\* found.
C26_OrderIndependent ==
    \A o1, o2 \in Orders(inserted) :
        LET t1 == Build(NewTrie, o1, 1)
            t2 == Build(NewTrie, o2, 1)
        IN  (t1.status = "ok" /\ t2.status = "ok") =>
                \A q \in Queries : Lookups(t1, q) = Lookups(t2, q)

\* the nodes of another trie instance into which nothing was inserted,
\* created before or after the calls on this one: its root is built by
\* PatriciaNode(0, 0), so the value of its root is the default dict
OtherTrieNodes == <<PatriciaNode({}, 0, <<>>)>>

\* C27 -- trie instances are independent: the root of a new trie holds no
\* masks, and the inserts into this trie (also the insert of the all-zero
\* address, stored on the root) leave the lookups on another trie instance,
\* into which nothing was inserted, as they were: they return no entry.
C27_Independent ==
    /\ ValueOf(OtherTrieNodes, defaultData, Root) = <<>>
    /\ \A q \in Queries :
          find_all_values(OtherTrieNodes, defaultData, FALSE, q)
              = [status |-> "ok", values |-> <<>>]

\* the number of leading bits that a and b share, in width bits: the number
\* of lengths k for which the k most significant positions agree
LeadingShared(a, b, width) ==
    Cardinality({k \in 1..width :
                    \A j \in (width - k)..(width - 1) : (j \in a) <=> (j \in b)})

\* C28 -- for a # b, longest_common_prefix_length(a, b, family) is the number
\* of leading bits that a and b share, and it is width - fls(a xor b) - 1;
\* fls returns the index, counted from the least significant bit, of the most
\* significant set bit of a nonzero value below 2^width, and 0 for 0.
C28_LcpLeadingShared ==
    lcpCall.out # NoLen =>
        LET width == IF lcpCall.v6 THEN 128 ELSE 32
            x == (lcpCall.a \ lcpCall.b) \cup (lcpCall.b \ lcpCall.a)
        IN  /\ lcpCall.a # lcpCall.b =>
                  /\ lcpCall.out = LeadingShared(lcpCall.a, lcpCall.b, width)
                  /\ lcpCall.out = width - fls(x, lcpCall.v6) - 1
            /\ \A val \in {x, lcpCall.a, lcpCall.b} :
                  fls(val, lcpCall.v6) = (IF val = {} THEN 0 ELSE Max(val))

\* longest_common_prefix_length has returned for two IPv6 addresses that
\* share the first bit and differ in the second
C28_Witness ==
    /\ lcpCall.out = 1
    /\ lcpCall.v6
    /\ lcpCall.a # lcpCall.b
    /\ 127 \in lcpCall.a
    /\ 127 \in lcpCall.b

\* C29 -- find_all on an IPv6 trie behaves as on an IPv4 trie: it returns
\* without an error, also when the address of a node does not fit in 32
\* bits, and reports every entry under the IPv6 address of its node and its
\* prefix length.
C29_V6FindAll ==
    \A q \in FamilyQueries :
        (v6 /\ is_v6(q)) =>
            \E r \in {find_all_values(nodes, defaultData, v6, q)} :
                /\ r.status # "address_error"
                /\ r.status = "ok" =>
                      \A i \in 1..Len(r.values) : r.values[i].k.v6

====
